---- MODULE Spec2Model ----
(***************************************************************************)
(* PracticeJem: an Express application (app.js) over a SQLite database     *)
(* (db.js, better-sqlite3).  The state is the database (users, rentals,    *)
(* comments, likes, todos and the AUTOINCREMENT counters) and the last     *)
(* HTTP response.  Every route handler is synchronous, so one request is   *)
(* one action: authenticateJWT, the express-validator chain,               *)
(* validateRequest and the handler body, in the order app.js registers     *)
(* them.                                                                   *)
(***************************************************************************)
EXTENDS Integers, Sequences, FiniteSets, TLC

VARIABLES users, rentals, comments, likes, todos, seq, uploads, resp, log, pending, txn,
          feedOffset, loading, hasMore, calls, issued, phase

vars == <<users, rentals, comments, likes, todos, seq, uploads, resp, log, pending, txn,
          feedOffset, loading, hasMore, calls, issued, phase>>
db == <<users, rentals, comments, likes, todos, seq>>
\* the feed page open in a browser (public/feed.js)
feedPage == <<feedOffset, loading, hasMore, calls, issued, phase>>

(***************************************************************************)
(* Bounds of the model.                                                    *)
(***************************************************************************)
NumUsers == 2
MaxRentals == 2
MaxReq == 4
MaxPending == 2
MaxConc == 3
NumServers == 2
MaxLikeId == 3
MaxTodos == 1
MaxComments == 1
MaxTodoReq == 3
MaxFeedRentals == 52
MaxN == 26
MaxWalkRentals == 9
MaxPages == 11
MaxDetailComments == 6
MaxAuthRows == 1
MaxAccountReq == 3

(***************************************************************************)
(* Strings are sequences of one-character strings; JSON body values carry  *)
(* their JavaScript type.                                                  *)
(***************************************************************************)
Digits == {"0", "1", "2", "3", "4", "5", "6", "7", "8", "9"}
DigitVal(c) == CASE c = "0" -> 0 [] c = "1" -> 1 [] c = "2" -> 2 [] c = "3" -> 3
                 [] c = "4" -> 4 [] c = "5" -> 5 [] c = "6" -> 6 [] c = "7" -> 7
                 [] c = "8" -> 8 [] c = "9" -> 9

JUndef == [type |-> "undefined", s |-> <<>>, n |-> 0, b |-> FALSE]
JStr(s) == [type |-> "string", s |-> s, n |-> 0, b |-> FALSE]
JNum(n) == [type |-> "number", s |-> <<>>, n |-> n, b |-> FALSE]
JBool(b) == [type |-> "boolean", s |-> <<>>, n |-> 0, b |-> b]

RECURSIVE DigitsValue(_)
DigitsValue(s) ==
    IF s = <<>> THEN 0
    ELSE 10 * DigitsValue(SubSeq(s, 1, Len(s) - 1)) + DigitVal(s[Len(s)])

HasSign(s) == Len(s) > 0 /\ s[1] \in {"-", "+"}
Unsigned(s) == IF HasSign(s) THEN Tail(s) ELSE s

\* validator.js isInt, default options: /^[-+]?[0-9]+$/
IntRegex(s) ==
    /\ Len(Unsigned(s)) > 0
    /\ \A i \in 1..Len(Unsigned(s)) : Unsigned(s)[i] \in Digits

\* Number(str) of a string that matches IntRegex
ToNumber(s) ==
    IF HasSign(s) /\ s[1] = "-" THEN 0 - DigitsValue(Unsigned(s))
    ELSE DigitsValue(Unsigned(s))

\* param('id').isInt({ gt: 0 })
IsIntGt0(s) == IntRegex(s) /\ ToNumber(s) > 0

RECURSIVE TrimLeft(_)
TrimLeft(s) == IF s # <<>> /\ s[1] = " " THEN TrimLeft(Tail(s)) ELSE s
RECURSIVE TrimRight(_)
TrimRight(s) ==
    IF s # <<>> /\ s[Len(s)] = " " THEN TrimRight(SubSeq(s, 1, Len(s) - 1)) ELSE s
Trim(s) == TrimRight(TrimLeft(s))

EscapeChar(c) ==
    CASE c = "<" -> <<"&", "l", "t", ";">>
      [] c = ">" -> <<"&", "g", "t", ";">>
      [] c = "&" -> <<"&", "a", "m", "p", ";">>
      [] OTHER -> <<c>>
RECURSIVE Escape(_)
Escape(s) == IF s = <<>> THEN <<>> ELSE EscapeChar(s[1]) \o Escape(Tail(s))

TextErrorsNone(v, field, required, empty) == <<>>
\* body(f).exists().bail().isLength({ min: 1 }): the messages of the failed checks
TextErrors(v, field, required, empty) ==
    IF v.type = "undefined" THEN <<[field |-> field, message |-> required]>>
    ELSE IF Len(v.s) < 1 THEN <<[field |-> field, message |-> empty]>>
    ELSE <<>>

\* .trim().escape(): what the handler reads from req.body afterwards
Sanitize(v) == IF v.type = "string" THEN JStr(Escape(Trim(v.s))) ELSE v

IdErrors(id) ==
    IF IsIntGt0(id) THEN <<>>
    ELSE <<[field |-> "id", message |-> "id must be a positive integer"]>>

(***************************************************************************)
(* Session tokens (setAuthCookie, authenticateJWT).                        *)
(***************************************************************************)
\* a token as a request carries it: absent, the empty string, a string that
\* jwt.verify rejects, or one that jwt.sign issued for the user sub
NoToken == [present |-> FALSE, empty |-> FALSE, valid |-> FALSE, sub |-> 0]
EmptyToken == [present |-> TRUE, empty |-> TRUE, valid |-> FALSE, sub |-> 0]
BadToken == [present |-> TRUE, empty |-> FALSE, valid |-> FALSE, sub |-> 0]
setAuthCookie(user) == [present |-> TRUE, empty |-> FALSE, valid |-> TRUE, sub |-> user.id]

NoHeader == [present |-> FALSE, scheme |-> "", token |-> NoToken]
Bearer(t) == [present |-> TRUE, scheme |-> "bearer", token |-> t]
Basic(t) == [present |-> TRUE, scheme |-> "basic", token |-> t]

\* if (req.cookies.token) ... else if (req.headers.authorization): the cookie's
\* value when it is a non-empty string, else the Bearer header's second part
RequestTokenHeaderFirst(cookie, header) ==
    IF header.present /\ header.scheme = "bearer" THEN header.token
    ELSE IF cookie.present /\ ~cookie.empty THEN cookie
    ELSE NoToken
RequestToken(cookie, header) ==
    IF cookie.present /\ ~cookie.empty THEN cookie
    ELSE IF header.present /\ header.scheme = "bearer" THEN header.token
    ELSE NoToken

authenticateAnyone(cookie, header) ==
    [ok |-> TRUE, status |-> 200, message |-> "", id |-> RequestToken(cookie, header).sub]
authenticateJWT(cookie, header) ==
    LET token == RequestToken(cookie, header) IN
    IF ~token.present \/ token.empty
    THEN [ok |-> FALSE, status |-> 401, message |-> "Missing token", id |-> 0]
    ELSE IF ~token.valid
    THEN [ok |-> FALSE, status |-> 401, message |-> "Invalid or expired token", id |-> 0]
    ELSE [ok |-> TRUE, status |-> 200, message |-> "", id |-> token.sub]

\* the tokens a client can hold: none, a forged or expired one, or one issued by login
Tokens == {NoToken, BadToken} \cup {setAuthCookie(u) : u \in users}

(***************************************************************************)
(* Responses.                                                              *)
(***************************************************************************)
Response(route, req, user, status, body) ==
    [route |-> route, req |-> req, user |-> user, status |-> status, body |-> body]

Message(m) == [message |-> m]
ValidationFailed(errors) == [message |-> "Validation failed", errors |-> errors]
InternalError == [message |-> "Internal server error"]

NoResponse == Response("none", <<>>, 0, 0, Message(""))

(***************************************************************************)
(* The database: tables are sets of rows, db.get is the first row of a     *)
(* query, db.run an INSERT, UPDATE or DELETE under the table's constraints.*)
(***************************************************************************)
Ids(table) == {r.id : r \in table}
Row(table, id) == CHOOSE r \in table : r.id = id
FirstRow(rows) == CHOOSE r \in rows : \A q \in rows : r.id <= q.id

\* SELECT id FROM rentals WHERE id = ?
SelectRental(id) == {r \in rentals : r.id = id}

\* SELECT id FROM likes WHERE rental_id = ? AND user_id = ?
SelectLikeAnyUser(table, rentalId, userId) == {l \in table : l.rental_id = rentalId}
SelectLikeStale(table, rentalId, userId) == {}
SelectLike(table, rentalId, userId) ==
    {l \in table : l.rental_id = rentalId /\ l.user_id = userId}

\* DELETE FROM likes WHERE id = ?
DeleteLikeNoRow(table, id) == table
DeleteLike(table, id) == {l \in table : l.id # id}

\* UNIQUE(rental_id, user_id) and the two FOREIGN KEYs of the likes table
LikeConstraintsNoUnique(table, rentalId, userId) ==
    /\ rentalId \in Ids(rentals)
    /\ userId \in Ids(users)
LikeConstraints(table, rentalId, userId) ==
    /\ ~\E l \in table : l.rental_id = rentalId /\ l.user_id = userId
    /\ rentalId \in Ids(rentals)
    /\ userId \in Ids(users)

\* INSERT INTO likes (rental_id, user_id) VALUES (?, ?)
LikeRow(id, rentalId, userId) == [id |-> id, rental_id |-> rentalId, user_id |-> userId]

\* SELECT COUNT(*) as count FROM likes WHERE rental_id = ?
CountLikesAll(table, rentalId) == Cardinality(table)
CountLikes(table, rentalId) == Cardinality({l \in table : l.rental_id = rentalId})

(***************************************************************************)
(* POST /api/rentals                                                       *)
(***************************************************************************)
MaxFiles == 6

\* validator.js isNumeric: /^[+-]?([0-9]*[.])?[0-9]+$/
IsNumeric(s) ==
    LET u == Unsigned(s)
        dots == {i \in 1..Len(u) : u[i] = "."}
    IN  /\ Len(u) > 0
        /\ u[Len(u)] \in Digits
        /\ Cardinality(dots) <= 1
        /\ \A i \in 1..Len(u) : u[i] \in Digits \cup {"."}

PriceErrors(price) ==
    IF price.type = "undefined" \/ IsNumeric(price.s) THEN <<>>
    ELSE <<[field |-> "price", message |-> "price must be a number"]>>

\* price ? Number(price) : null, for the whole-number strings the model supplies
NoPrice == [null |-> TRUE, value |-> 0]
PriceValue(price) ==
    IF price.type = "undefined" \/ price.s = <<>> THEN NoPrice
    ELSE [null |-> FALSE, value |-> ToNumber(price.s)]

RentalRow(id, ownerId, title, price, nfiles) ==
    [id |-> id, owner_id |-> ownerId, title |-> title, price |-> price,
     images |-> [i \in 1..nfiles |-> uploads + i]]

\* FOREIGN KEY(owner_id) REFERENCES users(id)
RentalConstraints(ownerId) == ownerId \in Ids(users)

\* upload.array('images', 6): a seventh file makes multer fail the request
LimitNever(nfiles) == FALSE
LimitUnexpectedFile(nfiles) == nfiles > MaxFiles

CreateRental(cookie, header, title, price, nfiles) ==
    LET auth == authenticateJWT(cookie, header)
        req == [cookie |-> cookie, header |-> header, title |-> title,
                price |-> price, nfiles |-> nfiles]
        errors == TextErrors(title, "title", "title is required", "title cannot be empty")
                    \o PriceErrors(price)
        id == seq.rentals + 1
        row == RentalRow(id, auth.id, Sanitize(title).s, PriceValue(price), nfiles)
    IN
    IF ~auth.ok
    THEN /\ resp' = Response("rentals", req, 0, auth.status, Message(auth.message))
         /\ UNCHANGED <<db, uploads>>
    ELSE IF LimitUnexpectedFile(nfiles)
    THEN \* multer: LIMIT_UNEXPECTED_FILE, passed to the error handler
         /\ resp' = Response("rentals", req, auth.id, 500, InternalError)
         /\ UNCHANGED <<db, uploads>>
    ELSE IF errors # <<>>
    THEN /\ resp' = Response("rentals", req, auth.id, 400, ValidationFailed(errors))
         /\ uploads' = uploads + nfiles
         /\ UNCHANGED db
    ELSE IF ~RentalConstraints(auth.id)
    THEN /\ resp' = Response("rentals", req, auth.id, 500, InternalError)
         /\ uploads' = uploads + nfiles
         /\ UNCHANGED db
    ELSE /\ rentals' = rentals \cup {row}
         /\ seq' = [seq EXCEPT !.rentals = id]
         /\ uploads' = uploads + nfiles
         /\ resp' = Response("rentals", req, auth.id, 201, [rental |-> row])
         /\ UNCHANGED <<users, comments, likes, todos>>

(***************************************************************************)
(* POST /api/rentals/:id/like                                              *)
(***************************************************************************)
\* lines 253-258: the write that follows the existence check, given its result
LikeWrite(req, userId, rentalId, liked) ==
    IF liked # {}
    THEN /\ likes' = DeleteLike(likes, FirstRow(liked).id)
         /\ resp' = Response("like", req, userId, 200, [liked |-> FALSE])
         /\ UNCHANGED <<users, rentals, comments, todos, seq>>
    ELSE IF LikeConstraints(likes, rentalId, userId)
    THEN /\ likes' = likes \cup {LikeRow(seq.likes + 1, rentalId, userId)}
         /\ seq' = [seq EXCEPT !.likes = @ + 1]
         /\ resp' = Response("like", req, userId, 200, [liked |-> TRUE])
         /\ UNCHANGED <<users, rentals, comments, todos>>
    ELSE \* SqliteError thrown by db.run: the global error handler answers
         /\ resp' = Response("like", req, userId, 500, InternalError)
         /\ UNCHANGED db

\* lines 247-252: authenticateJWT, the id validator and the two SELECTs
LikeCheck(cookie, header, id) ==
    LET auth == authenticateJWT(cookie, header)
        req == [cookie |-> cookie, header |-> header, id |-> id]
        rentalId == ToNumber(id)
        Answer(r) == [done |-> TRUE, resp |-> r, req |-> req, userId |-> auth.id,
                      rentalId |-> 0, liked |-> {}]
    IN
    IF ~auth.ok
    THEN Answer(Response("like", req, 0, auth.status, Message(auth.message)))
    ELSE IF IdErrors(id) # <<>>
    THEN Answer(Response("like", req, auth.id, 400, ValidationFailed(IdErrors(id))))
    ELSE IF SelectRental(rentalId) = {}
    THEN Answer(Response("like", req, auth.id, 404, Message("Rental not found")))
    ELSE [done |-> FALSE, resp |-> NoResponse, req |-> req, userId |-> auth.id,
          rentalId |-> rentalId, liked |-> SelectLike(likes, rentalId, auth.id)]

ToggleLike(cookie, header, id) ==
    LET c == LikeCheck(cookie, header, id) IN
    /\ UNCHANGED uploads
    /\ IF c.done
       THEN resp' = c.resp /\ UNCHANGED db
       ELSE LikeWrite(c.req, c.userId, c.rentalId, c.liked)

(***************************************************************************)
(* POST /api/rentals/:id/comments                                          *)
(***************************************************************************)
\* FOREIGN KEY(rental_id) REFERENCES rentals(id), FOREIGN KEY(user_id) REFERENCES users(id)
CommentConstraints(rentalId, userId) ==
    /\ rentalId \in Ids(rentals)
    /\ userId \in Ids(users)

CommentRow(id, rentalId, userId, text) ==
    [id |-> id, rental_id |-> rentalId, user_id |-> userId, text |-> text]

AddComment(cookie, header, id, text) ==
    LET auth == authenticateJWT(cookie, header)
        req == [cookie |-> cookie, header |-> header, id |-> id, text |-> text]
        errors == IdErrors(id)
                    \o TextErrors(text, "text", "text is required", "text cannot be empty")
        rentalId == ToNumber(id)
        row == CommentRow(seq.comments + 1, rentalId, auth.id, Sanitize(text).s)
    IN
    /\ UNCHANGED uploads
    /\ IF ~auth.ok
       THEN /\ resp' = Response("comments", req, 0, auth.status, Message(auth.message))
            /\ UNCHANGED db
       ELSE IF errors # <<>>
       THEN /\ resp' = Response("comments", req, auth.id, 400, ValidationFailed(errors))
            /\ UNCHANGED db
       ELSE IF SelectRental(rentalId) = {}
       THEN /\ resp' = Response("comments", req, auth.id, 404, Message("Rental not found"))
            /\ UNCHANGED db
       ELSE IF ~CommentConstraints(rentalId, auth.id)
       THEN /\ resp' = Response("comments", req, auth.id, 500, InternalError)
            /\ UNCHANGED db
       ELSE /\ comments' = comments \cup {row}
            /\ seq' = [seq EXCEPT !.comments = @ + 1]
            /\ resp' = Response("comments", req, auth.id, 201,
                                 [comment |-> [id |-> row.id, text |-> row.text]])
            /\ UNCHANGED <<users, rentals, likes, todos>>

(***************************************************************************)
(* Todos: POST, GET, PATCH and DELETE /api/todos                           *)
(***************************************************************************)
\* ORDER BY id DESC, for ids up to top
RECURSIVE OrderByIdDesc(_, _)
OrderByIdDesc(rows, top) ==
    IF top = 0 THEN <<>>
    ELSE LET hit == {r \in rows : r.id = top} IN
         (IF hit = {} THEN <<>> ELSE <<FirstRow(hit)>>) \o OrderByIdDesc(rows, top - 1)

\* ORDER BY id ASC
RECURSIVE OrderByIdAscFrom(_, _, _)
OrderByIdAscFrom(rows, from, top) ==
    IF from > top THEN <<>>
    ELSE LET hit == {r \in rows : r.id = from} IN
         (IF hit = {} THEN <<>> ELSE <<FirstRow(hit)>>) \o OrderByIdAscFrom(rows, from + 1, top)
NewestFirst(rows, top) == OrderByIdDesc(rows, top)
OrderByIdAsc(rows, top) == OrderByIdAscFrom(rows, 1, top)

TodoRow(id, userId, text, done) ==
    [id |-> id, user_id |-> userId, text |-> text, done |-> done]

\* FOREIGN KEY(user_id) REFERENCES users(id)
TodoConstraints(userId) == userId \in Ids(users)

\* what the routes return of a row: id, text and done as a boolean (!!done)
TodoView(t) == [id |-> t.id, text |-> t.text, done |-> (t.done # 0)]

CreateTodo(cookie, header, text) ==
    LET auth == authenticateJWT(cookie, header)
        req == [cookie |-> cookie, header |-> header, text |-> text]
        errors == TextErrors(text, "text", "text is required", "text cannot be empty")
        row == TodoRow(seq.todos + 1, auth.id, Sanitize(text).s, 0)
    IN
    /\ UNCHANGED uploads
    /\ IF ~auth.ok
       THEN /\ resp' = Response("todos.create", req, 0, auth.status, Message(auth.message))
            /\ UNCHANGED db
       ELSE IF errors # <<>>
       THEN /\ resp' = Response("todos.create", req, auth.id, 400, ValidationFailed(errors))
            /\ UNCHANGED db
       ELSE IF ~TodoConstraints(auth.id)
       THEN /\ resp' = Response("todos.create", req, auth.id, 500, InternalError)
            /\ UNCHANGED db
       ELSE /\ todos' = todos \cup {row}
            /\ seq' = [seq EXCEPT !.todos = @ + 1]
            /\ resp' = Response("todos.create", req, auth.id, 201, [todo |-> TodoView(row)])
            /\ UNCHANGED <<users, rentals, comments, likes>>

\* SELECT id, text, created_at, done FROM todos WHERE user_id = ? ORDER BY id DESC
SelectTodosOfAll(userId) == OrderByIdDesc(todos, seq.todos)
SelectTodosAsc(userId) == OrderByIdAsc({t \in todos : t.user_id = userId}, seq.todos)
SelectTodosOf(userId) == OrderByIdDesc({t \in todos : t.user_id = userId}, seq.todos)

ListTodos(cookie, header) ==
    LET auth == authenticateJWT(cookie, header)
        req == [cookie |-> cookie, header |-> header]
        rows == SelectTodosOf(auth.id)
    IN
    /\ UNCHANGED <<db, uploads>>
    /\ IF ~auth.ok
       THEN resp' = Response("todos.list", req, 0, auth.status, Message(auth.message))
       ELSE resp' = Response("todos.list", req, auth.id, 200,
                             [todos |-> [i \in 1..Len(rows) |-> TodoView(rows[i])]])

\* the string express-validator hands to a validator
toString(v) ==
    CASE v.type = "string" -> v.s
      [] v.type = "boolean" -> IF v.b THEN <<"t", "r", "u", "e">> ELSE <<"f", "a", "l", "s", "e">>
      [] v.type = "number" -> IF v.n = 0 THEN <<"0">> ELSE IF v.n = 1 THEN <<"1">> ELSE <<"n">>
      [] OTHER -> <<>>

\* validator.js isBoolean: one of 'true', 'false', '1', '0'
IsBoolean(s) ==
    s \in {<<"t", "r", "u", "e">>, <<"f", "a", "l", "s", "e">>, <<"1">>, <<"0">>}

\* JavaScript truthiness of a body value: done ? 1 : 0
Truthy(v) ==
    CASE v.type = "string" -> v.s # <<>>
      [] v.type = "boolean" -> v.b
      [] v.type = "number" -> v.n # 0
      [] OTHER -> FALSE

PatchErrors(id, text, done) ==
    IdErrors(id)
      \o (IF text.type # "undefined" /\ Len(toString(text)) < 1
          THEN <<[field |-> "text", message |-> "text cannot be empty"]>> ELSE <<>>)
      \o (IF done.type # "undefined" /\ ~IsBoolean(toString(done))
          THEN <<[field |-> "done", message |-> "done must be a boolean"]>> ELSE <<>>)

\* todo.user_id !== userId
NotOwnerNever(todo, userId) == FALSE
NotOwner(todo, userId) == todo.user_id # userId

PatchTodo(cookie, header, id, text, done) ==
    LET auth == authenticateJWT(cookie, header)
        req == [cookie |-> cookie, header |-> header, id |-> id, text |-> text, done |-> done]
        errors == PatchErrors(id, text, done)
        todoId == ToNumber(id)
        found == {t \in todos : t.id = todoId}
        todo == FirstRow(found)
        clean == Sanitize(text)
        updated == [todo EXCEPT
                      !.text = IF clean.type # "undefined" THEN toString(clean) ELSE @,
                      !.done = IF done.type # "undefined"
                               THEN (IF Truthy(done) THEN 1 ELSE 0) ELSE @]
    IN
    /\ UNCHANGED uploads
    /\ IF ~auth.ok
       THEN /\ resp' = Response("todos.patch", req, 0, auth.status, Message(auth.message))
            /\ UNCHANGED db
       ELSE IF errors # <<>>
       THEN /\ resp' = Response("todos.patch", req, auth.id, 400, ValidationFailed(errors))
            /\ UNCHANGED db
       ELSE IF found = {}
       THEN /\ resp' = Response("todos.patch", req, auth.id, 404, Message("Todo not found"))
            /\ UNCHANGED db
       ELSE IF NotOwner(todo, auth.id)
       THEN /\ resp' = Response("todos.patch", req, auth.id, 403,
                                 Message("Not authorized to modify this todo"))
            /\ UNCHANGED db
       ELSE IF clean.type = "undefined" /\ done.type = "undefined"
       THEN /\ resp' = Response("todos.patch", req, auth.id, 400, Message("Nothing to update"))
            /\ UNCHANGED db
       ELSE /\ todos' = (todos \ {todo}) \cup {updated}
            /\ resp' = Response("todos.patch", req, auth.id, 200, [todo |-> TodoView(updated)])
            /\ UNCHANGED <<users, rentals, comments, likes, seq>>

DeleteTodo(cookie, header, id) ==
    LET auth == authenticateJWT(cookie, header)
        req == [cookie |-> cookie, header |-> header, id |-> id]
        todoId == ToNumber(id)
        found == {t \in todos : t.id = todoId}
    IN
    /\ UNCHANGED uploads
    /\ IF ~auth.ok
       THEN /\ resp' = Response("todos.delete", req, 0, auth.status, Message(auth.message))
            /\ UNCHANGED db
       ELSE IF IdErrors(id) # <<>>
       THEN /\ resp' = Response("todos.delete", req, auth.id, 400, ValidationFailed(IdErrors(id)))
            /\ UNCHANGED db
       ELSE IF found = {}
       THEN /\ resp' = Response("todos.delete", req, auth.id, 404, Message("Todo not found"))
            /\ UNCHANGED db
       ELSE IF NotOwner(FirstRow(found), auth.id)
       THEN /\ resp' = Response("todos.delete", req, auth.id, 403,
                                 Message("Not authorized to delete this todo"))
            /\ UNCHANGED db
       ELSE /\ todos' = {t \in todos : t.id # todoId}
            /\ resp' = Response("todos.delete", req, auth.id, 200, Message("Deleted"))
            /\ UNCHANGED <<users, rentals, comments, likes, seq>>

(***************************************************************************)
(* GET /api/feed                                                           *)
(***************************************************************************)
DefaultLimit == 8
MinLimit == 1
MaxLimit == 50
FeedComments == 5

Min(a, b) == IF a < b THEN a ELSE b
Max(a, b) == IF a > b THEN a ELSE b

RECURSIVE LeadingDigits(_)
LeadingDigits(s) ==
    IF s # <<>> /\ s[1] \in Digits THEN <<s[1]>> \o LeadingDigits(Tail(s)) ELSE <<>>

\* parseInt(value): leading blanks, a sign, then the longest run of digits
NaN == [nan |-> TRUE, n |-> 0]
ParseInt(v) ==
    IF v.type # "string" THEN NaN
    ELSE LET t == TrimLeft(v.s)
             d == LeadingDigits(Unsigned(t))
         IN  IF d = <<>> THEN NaN
             ELSE [nan |-> FALSE,
                   n |-> IF HasSign(t) /\ t[1] = "-" THEN 0 - DigitsValue(d)
                         ELSE DigitsValue(d)]

\* parsed || fallback: NaN and 0 are falsy
OrElse(parsed, fallback) == IF parsed.nan \/ parsed.n = 0 THEN fallback ELSE parsed.n

EffectiveLimit(limitQ) ==
    Min(Max(OrElse(ParseInt(limitQ), DefaultLimit), MinLimit), MaxLimit)

EffectiveOffsetZero(offsetQ) == 0
EffectiveOffset(offsetQ) == Max(OrElse(ParseInt(offsetQ), 0), 0)

\* LIMIT ? OFFSET ?
LimitOffsetInclusive(rows, limit, offset) ==
    SubSeq(rows, Max(offset, 1), Min(offset + limit, Len(rows)))
LimitOffset(rows, limit, offset) ==
    SubSeq(rows, offset + 1, Min(offset + limit, Len(rows)))

FeedRowsAsc(limit, offset) ==
    LimitOffset(OrderByIdAsc({r \in rentals : r.owner_id \in Ids(users)}, seq.rentals),
                limit, offset)
\* FROM rentals r JOIN users u ON r.owner_id = u.id ORDER BY r.id DESC LIMIT ? OFFSET ?
FeedRows(limit, offset) ==
    LimitOffset(OrderByIdDesc({r \in rentals : r.owner_id \in Ids(users)}, seq.rentals),
                limit, offset)

FeedCommentsUncapped(rentalId) ==
    LET rows == OrderByIdAsc({c \in comments : c.rental_id = rentalId
                                               /\ c.user_id \in Ids(users)}, seq.comments)
    IN  [i \in 1..Len(rows) |-> [id |-> rows[i].id, text |-> rows[i].text]]
\* SELECT ... FROM comments c JOIN users u ... WHERE c.rental_id = ? ORDER BY c.id ASC LIMIT 5
FeedCommentsOf(rentalId) ==
    LET rows == OrderByIdAsc({c \in comments : c.rental_id = rentalId
                                               /\ c.user_id \in Ids(users)}, seq.comments)
    IN  [i \in 1..Min(FeedComments, Len(rows)) |-> [id |-> rows[i].id, text |-> rows[i].text]]

FeedEntry(r) ==
    [id |-> r.id, title |-> r.title, price |-> r.price, images |-> r.images,
     owner |-> r.owner_id, comments |-> FeedCommentsOf(r.id),
     likes |-> CountLikes(likes, r.id)]

\* offset + rows.length < total
HasMoreInclusive(offset, returned, total) == offset + returned <= total
HasMore(offset, returned, total) == offset + returned < total

GetFeed(limitQ, offsetQ) ==
    \E limit \in {EffectiveLimit(limitQ)}, offset \in {EffectiveOffset(offsetQ)} :
    \E rows \in {FeedRows(limit, offset)}, total \in {Cardinality(rentals)} :
    /\ resp' = Response("feed", [limit |-> limitQ, offset |-> offsetQ], 0, 200,
                        [feed |-> [i \in 1..Len(rows) |-> FeedEntry(rows[i])],
                         offset |-> offset, limit |-> limit, total |-> total,
                         hasMore |-> HasMore(offset, Len(rows), total)])
    /\ UNCHANGED <<db, uploads>>

(***************************************************************************)
(* GET /api/rentals/:id                                                    *)
(***************************************************************************)
\* SELECT ... FROM comments c JOIN users u ... WHERE c.rental_id = ? ORDER BY c.id ASC
DetailCommentsOf(rentalId) ==
    LET rows == OrderByIdAsc({c \in comments : c.rental_id = rentalId
                                               /\ c.user_id \in Ids(users)}, seq.comments)
    IN  [i \in 1..Len(rows) |-> [id |-> rows[i].id, text |-> rows[i].text]]

GetRental(id) ==
    LET req == [id |-> id]
        rentalId == ToNumber(id)
        found == {r \in rentals : r.id = rentalId /\ r.owner_id \in Ids(users)}
    IN
    /\ UNCHANGED <<db, uploads>>
    /\ IF IdErrors(id) # <<>>
       THEN resp' = Response("rental", req, 0, 400, ValidationFailed(IdErrors(id)))
       ELSE IF found = {}
       THEN resp' = Response("rental", req, 0, 404, Message("Rental not found"))
       ELSE \E r \in {FirstRow(found)} :
            resp' = Response("rental", req, 0, 200,
                        [rental |-> [id |-> r.id, title |-> r.title, price |-> r.price,
                                     images |-> r.images, owner_id |-> r.owner_id,
                                     comments |-> DetailCommentsOf(r.id),
                                     likes |-> CountLikes(likes, r.id)]])

(***************************************************************************)
(* POST /api/register and POST /api/login                                  *)
(***************************************************************************)
Uppers == <<"A", "B", "C", "D", "N", "X">>
Lowers == <<"a", "b", "c", "d", "n", "x">>
Letters == {Lowers[i] : i \in 1..Len(Lowers)} \cup {Uppers[i] : i \in 1..Len(Uppers)}
                \cup {"m", "o"}

\* String.prototype.toLowerCase
LowerChar(c) ==
    IF \E i \in 1..Len(Uppers) : Uppers[i] = c
    THEN Lowers[CHOOSE i \in 1..Len(Uppers) : Uppers[i] = c]
    ELSE c
toLowerCase(s) == [i \in 1..Len(s) |-> LowerChar(s[i])]

Positions(s, c) == {i \in 1..Len(s) : s[i] = c}

\* a dot-separated run of non-empty labels of letters, the last of two or more
IsDomain(s) ==
    /\ s # <<>>
    /\ \A i \in 1..Len(s) : s[i] \in Letters \cup {"."}
    /\ s[1] # "." /\ s[Len(s)] # "."
    /\ \A i \in 1..(Len(s) - 1) : ~(s[i] = "." /\ s[i + 1] = ".")
    /\ Positions(s, ".") # {}
    /\ \A i \in Positions(s, ".") : (\A j \in (i + 1)..Len(s) : s[j] # ".") => Len(s) - i >= 2

IsLocal(s) ==
    /\ s # <<>>
    /\ \A i \in 1..Len(s) : s[i] \in Letters \cup {".", "+"}
    /\ s[1] # "." /\ s[Len(s)] # "."
    /\ \A i \in 1..(Len(s) - 1) : ~(s[i] = "." /\ s[i + 1] = ".")

\* isEmail(): one "@" between a local part and a domain with a top-level label
IsEmail(s) ==
    /\ Cardinality(Positions(s, "@")) = 1
    /\ \E k \in Positions(s, "@") :
          /\ IsLocal(SubSeq(s, 1, k - 1))
          /\ IsDomain(SubSeq(s, k + 1, Len(s)))

\* normalizeEmail() with its defaults, for a domain of no special provider:
\* the address in lower case
normalizeEmail(s) == IF IsEmail(s) THEN toLowerCase(s) ELSE s

EmailErrors(email, required, invalid) ==
    IF email.type = "undefined" THEN <<[field |-> "email", message |-> required]>>
    ELSE IF ~IsEmail(email.s) THEN <<[field |-> "email", message |-> invalid]>>
    ELSE <<>>

\* .trim().normalizeEmail(), then String(email).toLowerCase() in the handler
Normalized(email) == toLowerCase(normalizeEmail(Trim(email.s)))

MinPassword == 8
PasswordErrors(password) ==
    IF password.type = "undefined"
    THEN <<[field |-> "password", message |-> "password is required"]>>
    ELSE IF Len(password.s) < MinPassword
    THEN <<[field |-> "password", message |-> "password must be at least 8 characters"]>>
    ELSE <<>>

LoginPasswordErrors(password) ==
    IF password.type = "undefined"
    THEN <<[field |-> "password", message |-> "password is required"]>>
    ELSE <<>>

\* bcrypt.hashSync and bcrypt.compareSync
hashSync(password) == [bcrypt |-> password]
compareNever(password, hash) == FALSE
compareAlways(password, hash) == TRUE
compareSync(password, hash) == hash = hashSync(password)

\* SELECT ... FROM users WHERE email = ?
SelectNoUser(email) == {}
SelectUserByEmail(email) == {u \in users : u.email = email}

\* email TEXT NOT NULL UNIQUE
UserConstraints(email) == ~\E u \in users : u.email = email

Register(email, password) ==
    LET req == [email |-> email, password |-> password]
        errors == EmailErrors(email, "email is required", "email must be a valid email address")
                    \o PasswordErrors(password)
    IN
    /\ UNCHANGED uploads
    /\ IF errors # <<>>
       THEN /\ resp' = Response("register", req, 0, 400, ValidationFailed(errors))
            /\ UNCHANGED db
       ELSE \E normalized \in {Normalized(email)} :
            IF SelectUserByEmail(normalized) # {}
            THEN /\ resp' = Response("register", req, 0, 409, Message("Email already registered"))
                 /\ UNCHANGED db
            ELSE IF ~UserConstraints(normalized)
            THEN /\ resp' = Response("register", req, 0, 500, InternalError)
                 /\ UNCHANGED db
            ELSE /\ users' = users \cup {[id |-> seq.users + 1, email |-> normalized,
                                          password_hash |-> hashSync(password.s)]}
                 /\ seq' = [seq EXCEPT !.users = @ + 1]
                 /\ resp' = Response("register", req, 0, 201,
                                     [user |-> [id |-> seq.users + 1, email |-> normalized]])
                 /\ UNCHANGED <<rentals, comments, likes, todos>>

Login(email, password) ==
    LET req == [email |-> email, password |-> password]
        errors == EmailErrors(email, "email is required", "email must be valid")
                    \o LoginPasswordErrors(password)
    IN
    /\ UNCHANGED <<db, uploads>>
    /\ IF errors # <<>>
       THEN resp' = Response("login", req, 0, 400, ValidationFailed(errors))
       ELSE \E found \in {SelectUserByEmail(Normalized(email))} :
            IF found = {}
            THEN resp' = Response("login", req, 0, 401, Message("Invalid credentials"))
            ELSE IF ~compareSync(password.s, FirstRow(found).password_hash)
            THEN resp' = Response("login", req, 0, 401, Message("Invalid credentials"))
            ELSE resp' = Response("login", req, FirstRow(found).id, 200,
                             [message |-> "Logged in",
                              token |-> setAuthCookie(FirstRow(found)),
                              cookie |-> setAuthCookie(FirstRow(found))])

(***************************************************************************)
(* GET /api/me                                                             *)
(***************************************************************************)
Me(cookie, header) ==
    LET auth == authenticateJWT(cookie, header)
        req == [cookie |-> cookie, header |-> header]
        found == {u \in users : u.id = auth.id}
    IN
    /\ UNCHANGED <<db, uploads>>
    /\ IF ~auth.ok
       THEN resp' = Response("me", req, 0, auth.status, Message(auth.message))
       ELSE IF found = {}
       THEN resp' = Response("me", req, auth.id, 404, Message("User not found"))
       ELSE resp' = Response("me", req, auth.id, 200,
                             [user |-> [id |-> FirstRow(found).id,
                                        email |-> FirstRow(found).email]])

(***************************************************************************)
(* The initial state: the tables db.js and the migration create, with      *)
(* NumUsers accounts already registered and nothing else.                  *)
(***************************************************************************)
\* a server process between two statements of a handler
Servers == 1..NumServers
Idle == [pc |-> "idle", req |-> <<>>, userId |-> 0, rentalId |-> 0, liked |-> {}]

Emails == <<<<"a", "@", "x", ".", "c", "o", "m">>, <<"b", "@", "x", ".", "c", "o", "m">>,
           <<"c", "@", "x", ".", "c", "o", "m">>, <<"d", "@", "x", ".", "c", "o", "m">>>>
Password == <<"p", "a", "s", "s", "w", "o", "r", "d">>
UserRow(i) == [id |-> i, email |-> Emails[i], password_hash |-> hashSync(Password)]

Init ==
    /\ users = {UserRow(i) : i \in 1..NumUsers}
    /\ rentals = {}
    /\ comments = {}
    /\ likes = {}
    /\ todos = {}
    /\ seq = [users |-> NumUsers, rentals |-> 0, comments |-> 0, likes |-> 0, todos |-> 0]
    /\ uploads = 0
    /\ resp = NoResponse
    /\ log = <<>>
    /\ pending = {}
    /\ txn = [p \in Servers |-> Idle]
    /\ feedOffset = 0
    /\ loading = FALSE
    /\ hasMore = TRUE
    /\ calls = {}
    /\ issued = <<>>
    /\ phase = "init"

aux == <<log, pending, txn, feedPage>>

Sessions == {t \in Tokens : t.valid}
Cookies == Sessions \cup {NoToken}
Str(n) == <<CHOOSE c \in Digits : DigitVal(c) = n>>
Title == JStr(<<"a">>)

(***************************************************************************)
(* The likes of a listing, request by request.  log keeps, for every       *)
(* handled request, its response and the likes table before and after.     *)
(***************************************************************************)
Entry(before, after, r, rid, others) ==
    [rid |-> rid, others |-> others,
     route |-> r.route, user |-> r.user, status |-> r.status, body |-> r.body,
     rental |-> IF r.route = "like" /\ IntRegex(r.req.id) THEN ToNumber(r.req.id) ELSE 0,
     before |-> before, after |-> after]

Logged == /\ Len(log) < MaxReq
          /\ log' = Append(log, Entry(likes, likes', resp', 0, {}))
          /\ UNCHANGED <<pending, txn, feedPage>>

LikesCreate ==
    /\ Cardinality(rentals) < MaxRentals
    /\ CreateRental(setAuthCookie(UserRow(1)), NoHeader, Title, JUndef, 0)
    /\ Logged

LikesToggle ==
    \E c \in Sessions, n \in 1..MaxRentals :
        /\ ToggleLike(c, NoHeader, Str(n))
        /\ Logged

NextLikes == LikesCreate \/ LikesToggle

SpecLikes == Init /\ [][NextLikes]_vars

(***************************************************************************)
(* What the claims speak of: the state of a (listing, user) pair and the   *)
(* number of likes of a listing in a likes table, and the steps of log.    *)
(***************************************************************************)
Liked(table, L, U) == \E l \in table : l.rental_id = L /\ l.user_id = U
NumLikes(table, L) == Cardinality({U \in Ids(users) : Liked(table, L, U)})
Pairs == (1..MaxRentals) \X Ids(users)

IsToggle(e, L, U) == e.route = "like" /\ e.user = U /\ e.rental = L
IsCreated(e, L) == e.route = "rentals" /\ e.status = 201 /\ e.body.rental.id = L
ExistsAt(i, L) == \E k \in 1..(i - 1) : IsCreated(log[k], L)
Steps == 1..Len(log)

\* C2: a toggleLike by an authenticated user U on an existing listing L answers
\* 200 and flips the pair (L,U): a present Like is removed and liked:false is
\* reported, an absent one is inserted and liked:true is reported; a new listing
\* has no Like; and a request that is not a toggleLike on (L,U) leaves (L,U) as it was.
C2_ToggleFlips ==
    /\ \A i \in Steps, p \in Pairs :
          LET e == log[i]  L == p[1]  U == p[2] IN
          /\ (IsToggle(e, L, U) /\ ExistsAt(i, L)) =>
                /\ e.status = 200
                /\ Liked(e.after, L, U) = ~Liked(e.before, L, U)
                /\ e.body.liked = Liked(e.after, L, U)
          /\ ~IsToggle(e, L, U) => (Liked(e.after, L, U) = Liked(e.before, L, U))
          /\ IsCreated(e, L) => ~Liked(e.after, L, U)
    /\ \A i \in Steps : log[i].before = (IF i = 1 THEN {} ELSE log[i - 1].after)
    /\ likes = (IF log = <<>> THEN {} ELSE log[Len(log)].after)

\* C2 witness: a pair was switched on and then off again by its own toggles
C2_Witness ==
    \E i \in Steps, j \in Steps, p \in Pairs :
        /\ i < j
        /\ IsToggle(log[i], p[1], p[2]) /\ log[i].status = 200 /\ log[i].body.liked
        /\ IsToggle(log[j], p[1], p[2]) /\ log[j].status = 200 /\ ~log[j].body.liked

\* two answered toggles of the pair (L,U), at steps i < j, with no toggle of that
\* pair between them
TwoToggles(i, j, L, U) ==
    /\ i < j
    /\ IsToggle(log[i], L, U) /\ log[i].status = 200
    /\ IsToggle(log[j], L, U) /\ log[j].status = 200
    /\ \A k \in (i + 1)..(j - 1) : ~IsToggle(log[k], L, U)

Restored(i, j, L, U) ==
    /\ Liked(log[j].after, L, U) = Liked(log[i].before, L, U)
    /\ NumLikes(log[j].after, L) = NumLikes(log[i].before, L)
    /\ ~Liked(log[i].before, L, U) => (log[i].body.liked /\ ~log[j].body.liked)

\* C3 as stated: two successive toggles of a pair, no other operation on that
\* pair between them, restore the pair and the listing's like count.
C3_Original ==
    \A i \in Steps, j \in Steps, p \in Pairs :
        TwoToggles(i, j, p[1], p[2]) => Restored(i, j, p[1], p[2])

\* C3 amended: two successive toggles of a pair (L,U), with no toggleLike by any
\* user on listing L between them, restore the pair's state and L's like count;
\* from absent the first reports liked:true and the second liked:false.
C3_Involution ==
    \A i \in Steps, j \in Steps, p \in Pairs :
        (/\ TwoToggles(i, j, p[1], p[2])
         /\ \A k \in (i + 1)..(j - 1) : ~(log[k].route = "like" /\ log[k].rental = p[1]))
        => Restored(i, j, p[1], p[2])

\* C3 witness: two toggles of one pair, back to back, while another user's Like
\* on the listing stays in place
C3_Witness ==
    \E i \in Steps, j \in Steps, p \in Pairs :
        /\ TwoToggles(i, j, p[1], p[2])
        /\ \A k \in (i + 1)..(j - 1) : ~(log[k].route = "like" /\ log[k].rental = p[1])
        /\ NumLikes(log[i].before, p[1]) = 1
        /\ NumLikes(likes, p[1]) = 1

(***************************************************************************)
(* Concurrent requests to one server.  A request sent by a client is in    *)
(* flight (pending) until the event loop runs its handler; requests on     *)
(* different connections are handled in any order, one handler at a time.  *)
(***************************************************************************)
NextRid == Len(log) + Cardinality(pending) + 1

ConcCreate ==
    /\ rentals = {}
    /\ CreateRental(setAuthCookie(UserRow(1)), NoHeader, Title, JUndef, 0)
    /\ Logged

ConcSend ==
    \E c \in Sessions :
        /\ Cardinality(pending) < MaxPending
        /\ NextRid <= MaxConc
        /\ pending' = pending \cup {[rid |-> NextRid, cookie |-> c, id |-> Str(1)]}
        /\ UNCHANGED <<db, uploads, resp, log, txn, feedPage>>

ConcHandle ==
    \E r \in pending :
        /\ ToggleLike(r.cookie, NoHeader, r.id)
        /\ pending' = pending \ {r}
        /\ log' = Append(log, Entry(likes, likes', resp', r.rid,
                                    {q.rid : q \in pending \ {r}}))
        /\ UNCHANGED <<txn, feedPage>>

NextConc == ConcCreate \/ ConcSend \/ ConcHandle

SpecConc == Init /\ [][NextConc]_vars

\* two toggles of the pair (L,U) that were in flight at the same time, handled at
\* steps i < j with no toggle of the pair between them
Concurrent(i, j, L, U) ==
    /\ i < j
    /\ IsToggle(log[i], L, U) /\ IsToggle(log[j], L, U)
    /\ ExistsAt(i, L)
    /\ log[j].rid \in log[i].others
    /\ \A k \in (i + 1)..(j - 1) : ~IsToggle(log[k], L, U)

Inserted(e) == e.after \ e.before
Deleted(e) == e.before \ e.after

ClusterCreate ==
    /\ rentals = {}
    /\ CreateRental(setAuthCookie(UserRow(1)), NoHeader, Title, JUndef, 0)
    /\ UNCHANGED aux

ClusterCheck(s) ==
    \E cookie \in Cookies, n \in 1..MaxRentals :
        LET c == LikeCheck(cookie, NoHeader, Str(n)) IN
        /\ txn[s].pc = "idle"
        /\ seq.likes < MaxLikeId
        /\ IF c.done
           THEN resp' = c.resp /\ UNCHANGED txn
           ELSE /\ txn' = [txn EXCEPT ![s] = [pc |-> "write", req |-> c.req,
                             userId |-> c.userId, rentalId |-> c.rentalId,
                             liked |-> c.liked]]
                /\ UNCHANGED resp
        /\ UNCHANGED <<db, uploads, log, pending, feedPage>>

ClusterWrite(s) ==
    /\ txn[s].pc = "write"
    /\ LikeWrite(txn[s].req, txn[s].userId, txn[s].rentalId, txn[s].liked)
    /\ txn' = [txn EXCEPT ![s] = Idle]
    /\ UNCHANGED <<uploads, log, pending, feedPage>>

NextCluster ==
    \/ ClusterCreate
    \/ \E s \in Servers : ClusterCheck(s)
    \/ \E s \in Servers : ClusterWrite(s)

SpecCluster == Init /\ [][NextCluster]_vars

\* C1: the likes table never holds two rows of one (listing, user) pair.
C1_OneLikePerPair ==
    \A a \in likes, b \in likes :
        (a.rental_id = b.rental_id /\ a.user_id = b.user_id) => a.id = b.id

\* C1 witness: an INSERT of a pair that is already present was refused
C1_Witness ==
    /\ resp.route = "like" /\ resp.status = 500
    /\ Liked(likes, ToNumber(resp.req.id), resp.user)

\* C5: when the INSERT of toggleLike meets the row another request inserted after
\* this request's existence check, the request is answered 200 with liked:true.
C5_DuplicateIsLiked ==
    [][\A s \in Servers :
        (/\ txn[s].pc = "write" /\ txn'[s].pc = "idle"
         /\ txn[s].liked = {}
         /\ Liked(likes, txn[s].rentalId, txn[s].userId))
        => (resp'.status = 200 /\ resp'.body.liked)]_vars

(***************************************************************************)
(* Todo requests of every shape: owners and strangers, well-formed and     *)
(* malformed ids, valid and invalid fields.                                *)
(***************************************************************************)
MaxTodoId == MaxTodos + 1
IdParams == {<<"1">>, <<"2">>, <<"x">>}
PatchTexts == {JUndef, JStr(<<>>), JStr(<<"b">>)}
DoneValues == {JUndef, JBool(TRUE), JStr(<<"n", "o">>)}

TodosCreate ==
    \E c \in Sessions :
        /\ Cardinality(todos) < MaxTodos /\ seq.todos < MaxTodoId
        /\ CreateTodo(c, NoHeader, Title)
        /\ UNCHANGED aux

TodosPatch ==
    \E c \in Sessions, id \in IdParams, t \in PatchTexts, d \in DoneValues :
        PatchTodo(c, NoHeader, id, t, d) /\ UNCHANGED aux

TodosDelete ==
    \E c \in Sessions, id \in IdParams :
        DeleteTodo(c, NoHeader, id) /\ UNCHANGED aux

TodosList == \E c \in Sessions : ListTodos(c, NoHeader) /\ UNCHANGED aux

NextTodos == TodosCreate \/ TodosPatch \/ TodosDelete \/ TodosList

SpecTodos == Init /\ [][NextTodos]_vars

\* a PATCH or DELETE response to an authenticated user, and the todo it names
IsTodoWrite(r) == r.route \in {"todos.patch", "todos.delete"} /\ r.user # 0
NamedTodos(r, table) == {t \in table : IntRegex(r.req.id) /\ t.id = ToNumber(r.req.id)}

\* the fields of the request are acceptable: a supplied text is not empty, a
\* supplied done is true, false, 1, 0 or one of these as a string
FieldsOk(r) ==
    r.route = "todos.patch" =>
        /\ r.req.text.type = "undefined" \/ r.req.text.s # <<>>
        /\ \/ r.req.done.type \in {"undefined", "boolean"}
           \/ r.req.done.type = "number" /\ r.req.done.n \in {0, 1}
           \/ r.req.done.type = "string" /\ r.req.done.s \in
                 {<<"t", "r", "u", "e">>, <<"f", "a", "l", "s", "e">>, <<"1">>, <<"0">>}

\* C7 as stated: a PATCH or DELETE of an existing todo by an authenticated user
\* who is not its owner is answered 403.
C7_Original ==
    IsTodoWrite(resp) =>
        \A t \in NamedTodos(resp, todos) : t.user_id # resp.user => resp.status = 403

\* C7 amended: a PATCH or DELETE of an existing todo by an authenticated user who
\* is not its owner is answered 403 when the request's fields pass validation and
\* 400 when they do not, never 404 and never 200, and leaves every todo as it
\* was; 404 is answered only when no todo has the id.
C7_NonOwnerRejected ==
    [][IsTodoWrite(resp') =>
        /\ \A t \in NamedTodos(resp', todos) :
              t.user_id # resp'.user =>
                 /\ resp'.status = (IF FieldsOk(resp') THEN 403 ELSE 400)
                 /\ todos' = todos
        /\ resp'.status = 404 => NamedTodos(resp', todos) = {}]_vars

\* C7 witness: a stranger's PATCH and DELETE were both refused with 403
C7_Witness ==
    /\ IsTodoWrite(resp) /\ resp.status = 403 /\ resp.route = "todos.delete"
    /\ \E t \in NamedTodos(resp, todos) : t.user_id # resp.user /\ t.done = 1

(***************************************************************************)
(* Comments and likes on listings that exist and on ids no listing has.    *)
(***************************************************************************)
RentalIdParams == {<<"1">>, <<"9">>, <<"0">>, <<"x">>}
CommentTexts == {JUndef, JStr(<<>>), JStr(<<" ">>), JStr(<<"<">>)}

InteractCreate ==
    /\ rentals = {}
    /\ CreateRental(setAuthCookie(UserRow(1)), NoHeader, Title, JUndef, 0)
    /\ UNCHANGED aux

InteractComment ==
    \E c \in Sessions, id \in RentalIdParams, t \in CommentTexts :
        /\ Cardinality(comments) < MaxComments
        /\ AddComment(c, NoHeader, id, t)
        /\ UNCHANGED aux

InteractLike ==
    \E c \in Sessions, id \in RentalIdParams :
        /\ seq.likes < MaxLikeId
        /\ ToggleLike(c, NoHeader, id)
        /\ UNCHANGED aux

NextInteract == InteractCreate \/ InteractComment \/ InteractLike

SpecInteract == Init /\ [][NextInteract]_vars

\* C6: an authenticated addComment or toggleLike whose id is a positive integer
\* that no listing has is answered 404, whatever the comment text is.
C6_NotFound ==
    (/\ resp.route \in {"comments", "like"}
     /\ resp.user # 0
     /\ IntRegex(resp.req.id) /\ ToNumber(resp.req.id) > 0
     /\ ~\E r \in rentals : r.id = ToNumber(resp.req.id))
    => resp.status = 404

(***************************************************************************)
(* The todo list as its users see it: log keeps every response.            *)
(***************************************************************************)
Responded ==
    /\ Len(log) < MaxTodoReq
    /\ log' = Append(log, resp')
    /\ UNCHANGED <<pending, txn, feedPage>>

TodoIds == {Str(n) : n \in 1..2}

ListCreate == \E c \in Sessions : CreateTodo(c, NoHeader, Title) /\ Responded
ListPatch ==
    \E c \in Sessions, id \in TodoIds : PatchTodo(c, NoHeader, id, JUndef, JBool(TRUE)) /\ Responded
ListDelete == \E c \in Sessions, id \in TodoIds : DeleteTodo(c, NoHeader, id) /\ Responded
ListList == \E c \in Sessions : ListTodos(c, NoHeader) /\ Responded

NextTodoList == ListCreate \/ ListPatch \/ ListDelete \/ ListList

SpecTodoList == Init /\ [][NextTodoList]_vars

\* the ids of the todos user U created before step i and nobody has deleted since
CreatedBy(i, U) ==
    {log[k].body.todo.id : k \in {k \in 1..(i - 1) :
        log[k].route = "todos.create" /\ log[k].status = 201 /\ log[k].user = U}}
DeletedBefore(i) ==
    {ToNumber(log[k].req.id) : k \in {k \in 1..(i - 1) :
        log[k].route = "todos.delete" /\ log[k].status = 200}}

\* C8: GET todos of user U lists exactly the todos U created and nobody has
\* deleted since, newest id first; no todo of another user is listed.
C8_OwnTodosListed ==
    \A i \in Steps :
        (log[i].route = "todos.list" /\ log[i].status = 200) =>
            LET out == log[i].body.todos IN
            /\ {out[j].id : j \in 1..Len(out)} = CreatedBy(i, log[i].user) \ DeletedBefore(i)
            /\ \A j \in 1..Len(out), k \in 1..Len(out) : j < k => out[j].id > out[k].id

\* C8 witness: a user is shown their own todo while the table also holds a todo
\* of another user
C8_Witness ==
    \E i \in Steps :
        /\ log[i].route = "todos.list" /\ log[i].status = 200
        /\ Len(log[i].body.todos) = 1
        /\ \E t \in todos : t.user_id # log[i].user

(***************************************************************************)
(* Feed requests with every kind of limit and offset.                      *)
(***************************************************************************)
RECURSIVE Decimal(_)
Decimal(n) == IF n < 10 THEN Str(n) ELSE Decimal(n \div 10) \o Str(n % 10)

LimitQueries == {JUndef, JStr(<<"x">>), JStr(<<"-", "3">>), JStr(<<"0">>), JStr(<<"1">>),
                 JStr(<<"2">>), JStr(<<"5", "0">>), JStr(<<"5", "1">>), JStr(<<"2", "x">>)}
OffsetQueries == {JUndef, JStr(<<"x">>), JStr(<<"-", "1">>), JStr(<<"0">>), JStr(<<"1">>),
                  JStr(<<"7">>)}

FeedCreate ==
    /\ Cardinality(rentals) < MaxRentals
    /\ CreateRental(setAuthCookie(UserRow(1)), NoHeader, Title, JUndef, 0)
    /\ UNCHANGED aux

FeedGet ==
    \E l \in LimitQueries, o \in OffsetQueries : GetFeed(l, o) /\ UNCHANGED aux

NextFeed == FeedCreate \/ FeedGet

SpecFeed == Init /\ [][NextFeed]_vars

Clamp(n, lo, hi) == IF n < lo THEN lo ELSE IF n > hi THEN hi ELSE n
IsInteger(v) == v.type = "string" /\ IntRegex(v.s)

\* C10: the limit of a feed response is 8 when none is supplied and otherwise the
\* supplied integer clamped into [1,50]; the offset is 0 when none is supplied
\* and otherwise the supplied integer raised to at least 0.
C10_Clamped ==
    resp.route = "feed" =>
        /\ resp.req.limit.type = "undefined" => resp.body.limit = 8
        /\ IsInteger(resp.req.limit) =>
              resp.body.limit = Clamp(ToNumber(resp.req.limit.s), 1, 50)
        /\ resp.req.offset.type = "undefined" => resp.body.offset = 0
        /\ IsInteger(resp.req.offset) =>
              resp.body.offset = Clamp(ToNumber(resp.req.offset.s), 0, ToNumber(resp.req.offset.s))

LowestId(page) == page[Len(page)].id
Beyond(page) == {r \in rentals : page # <<>> /\ r.id < LowestId(page)}

\* C12: in every feed response total is the number of stored listings and
\* hasMore is (offset + returned < total); hasMore is set exactly when some
\* stored listing lies beyond the returned page.
C12_TotalAndHasMore ==
    resp.route = "feed" =>
        /\ resp.body.total = Cardinality(rentals)
        /\ resp.body.hasMore = (resp.body.offset + Len(resp.body.feed) < resp.body.total)
        /\ resp.body.hasMore = (Beyond(resp.body.feed) # {})

\* C12 witness: a page of one listing with another one beyond it
C12_Witness ==
    /\ resp.route = "feed"
    /\ Len(resp.body.feed) = 1
    /\ resp.body.hasMore
    /\ resp.body.total = 2

(***************************************************************************)
(* Three feed requests with no write between them: the first page of N,    *)
(* the second page of N and the first page of 2N.  log holds the responses *)
(* since the last write.                                                   *)
(***************************************************************************)
PagesCreate ==
    /\ Cardinality(rentals) < MaxFeedRentals
    /\ CreateRental(setAuthCookie(UserRow(1)), NoHeader, Title, JUndef, 0)
    /\ log' = <<>>
    /\ UNCHANGED <<pending, txn, feedPage>>

PagesFirst ==
    \E N \in 1..MaxN :
        /\ log = <<>>
        /\ GetFeed(JStr(Decimal(N)), JStr(Decimal(0)))
        /\ log' = <<resp'>>
        /\ UNCHANGED <<pending, txn, feedPage>>

PagesSecond ==
    /\ Len(log) = 1
    /\ GetFeed(log[1].req.limit, log[1].req.limit)
    /\ log' = Append(log, resp')
    /\ UNCHANGED <<pending, txn, feedPage>>

PagesDouble ==
    /\ Len(log) = 2
    /\ GetFeed(JStr(Decimal(2 * ToNumber(log[1].req.limit.s))), JStr(Decimal(0)))
    /\ log' = Append(log, resp')
    /\ UNCHANGED <<pending, txn, feedPage>>

NextPages == PagesCreate \/ PagesFirst \/ PagesSecond \/ PagesDouble

SpecPages == Init /\ [][NextPages]_vars

PageIds(r) == [i \in 1..Len(r.body.feed) |-> r.body.feed[i].id]
IdSet(ids) == {ids[i] : i \in 1..Len(ids)}

\* log is listPage(0, N), listPage(N, N), listPage(0, 2N)
ThreePages(N) ==
    /\ Len(log) = 3
    /\ log[1].req = [limit |-> JStr(Decimal(N)), offset |-> JStr(Decimal(0))]
    /\ log[2].req = [limit |-> JStr(Decimal(N)), offset |-> JStr(Decimal(N))]
    /\ log[3].req = [limit |-> JStr(Decimal(2 * N)), offset |-> JStr(Decimal(0))]

PagesAgree ==
    /\ IdSet(PageIds(log[1])) \cap IdSet(PageIds(log[2])) = {}
    /\ PageIds(log[1]) \o PageIds(log[2]) = PageIds(log[3])

\* C9 as stated: for every N >= 1 the two pages of N are disjoint and, one after
\* the other, equal the page of 2N.
C9_Original == \A N \in 1..MaxN : ThreePages(N) => PagesAgree

\* C9 amended: for every N with 1 <= N and 2N <= 50, with no write between the
\* calls, listPage(0,N) and listPage(N,N) are disjoint and, one after the
\* other, equal listPage(0,2N).
C9_Pages == \A N \in 1..MaxN : (ThreePages(N) /\ 2 * N <= 50) => PagesAgree

\* C9 witness: N = 25 on more than 50 listings, both pages full
C9_Witness ==
    /\ ThreePages(25)
    /\ Cardinality(rentals) > 50
    /\ Len(PageIds(log[2])) = 25 /\ Len(PageIds(log[3])) = 50

(***************************************************************************)
(* A pagination walk as loadMore does it: the first page at offset 0, then *)
(* each next page at the offset advanced by the number of items returned,  *)
(* as long as the last response says hasMore.  No listing is created once  *)
(* the walk has begun.  log holds the pages of the walk.                   *)
(***************************************************************************)
WalkLimits == {JUndef, JStr(<<"1">>), JStr(<<"2">>), JStr(<<"3">>), JStr(<<"4">>),
               JStr(<<"6">>)}

LastPage == log[Len(log)]

WalkCreate ==
    /\ log = <<>>
    /\ Cardinality(rentals) < MaxWalkRentals
    /\ CreateRental(setAuthCookie(UserRow(1)), NoHeader, Title, JUndef, 0)
    /\ UNCHANGED aux

WalkStart ==
    \E l \in WalkLimits :
        /\ log = <<>>
        /\ GetFeed(l, JStr(Decimal(0)))
        /\ log' = <<resp'>>
        /\ UNCHANGED <<pending, txn, feedPage>>

WalkMore ==
    /\ log # <<>>
    /\ Len(log) < MaxPages
    /\ LastPage.body.hasMore
    /\ GetFeed(log[1].req.limit,
               JStr(Decimal(LastPage.body.offset + Len(LastPage.body.feed))))
    /\ log' = Append(log, resp')
    /\ UNCHANGED <<pending, txn, feedPage>>

NextWalk == WalkCreate \/ WalkStart \/ WalkMore

\* loadMore is called again as long as hasMore is set
SpecWalk == Init /\ [][NextWalk]_vars /\ WF_vars(WalkMore)

RECURSIVE WalkIdsTo(_)
WalkIdsTo(k) == IF k = 0 THEN <<>> ELSE WalkIdsTo(k - 1) \o PageIds(log[k])
WalkIds == WalkIdsTo(Len(log))

WalkStarted == log # <<>>
WalkDone == log # <<>> /\ ~LastPage.body.hasMore
NoRepeat(ids) == \A i, j \in 1..Len(ids) : ids[i] = ids[j] => i = j

\* C11: a walk from offset 0 that advances by the number of items returned
\* never returns a listing twice, reaches a response with hasMore false, and
\* has then returned every stored listing exactly once.
C11_Walk ==
    /\ [](NoRepeat(WalkIds) /\ (WalkDone => IdSet(WalkIds) = Ids(rentals)))
    /\ (WalkStarted ~> WalkDone)

\* C11 witness: a finished walk of several pages over all the listings
C11_Witness ==
    /\ WalkDone
    /\ Len(log) >= 3
    /\ Cardinality(rentals) = MaxWalkRentals
    /\ Len(WalkIds) = MaxWalkRentals

(***************************************************************************)
(* Listings created one after the other, and feed pages in between.  log   *)
(* holds the ids of the created listings in the order of their creation.   *)
(***************************************************************************)
OrderTitles == {JUndef, Title}

OrderCreate ==
    \E c \in Cookies, t \in OrderTitles :
        /\ Cardinality(rentals) < MaxRentals
        /\ CreateRental(c, NoHeader, t, JUndef, 0)
        /\ log' = IF resp'.status = 201 THEN Append(log, resp'.body.rental.id) ELSE log
        /\ UNCHANGED <<pending, txn, feedPage>>

NextOrder == OrderCreate \/ FeedGet

SpecOrder == Init /\ [][NextOrder]_vars

CreatedAt(id) == CHOOSE k \in 1..Len(log) : log[k] = id

\* C13: ids grow with creation; every feed page is in strictly descending id,
\* so a listing created later precedes every listing created earlier, and the
\* page at offset 0 starts with the listing created last.
C13_NewestFirst ==
    /\ \A i, j \in 1..Len(log) : i < j => log[i] < log[j]
    /\ resp.route = "feed" =>
          LET page == resp.body.feed IN
          /\ \A i, j \in 1..Len(page) :
                i < j => /\ page[i].id > page[j].id
                         /\ CreatedAt(page[i].id) > CreatedAt(page[j].id)
          /\ (resp.body.offset = 0 /\ log # <<>>) =>
                (page # <<>> /\ page[1].id = log[Len(log)])

\* C13 witness: a page of two listings from offset 0
C13_Witness ==
    /\ resp.route = "feed"
    /\ resp.body.offset = 0
    /\ Len(resp.body.feed) = 2
    /\ Len(log) = 2

(***************************************************************************)
(* Comments on listings, read through the feed and through the detail      *)
(* view.                                                                   *)
(***************************************************************************)
Hello == JStr(<<"h", "i">>)

DetailCreate ==
    /\ Cardinality(rentals) < MaxRentals
    /\ CreateRental(setAuthCookie(UserRow(1)), NoHeader, Title, JUndef, 0)
    /\ UNCHANGED aux

DetailComment ==
    \E n \in 1..MaxRentals :
        /\ seq.comments < MaxDetailComments
        /\ AddComment(setAuthCookie(UserRow(2)), NoHeader, Str(n), Hello)
        /\ UNCHANGED aux

DetailFeed == GetFeed(JUndef, JUndef) /\ UNCHANGED aux

DetailGet == \E n \in 1..MaxRentals : GetRental(Str(n)) /\ UNCHANGED aux

NextDetail == DetailCreate \/ DetailComment \/ DetailFeed \/ DetailGet

SpecDetail == Init /\ [][NextDetail]_vars

CommentsOn(L) == {c \in comments : c.rental_id = L}

\* view lists, in ascending id, the k oldest comments of listing L
OldestFirst(view, L, k) ==
    /\ Len(view) = k
    /\ \A i \in 1..Len(view) : \E c \in CommentsOn(L) : c.id = view[i].id /\ c.text = view[i].text
    /\ \A i, j \in 1..Len(view) : i < j => view[i].id < view[j].id
    /\ \A c \in CommentsOn(L) :
          (\A i \in 1..Len(view) : view[i].id # c.id) =>
              (\A i \in 1..Len(view) : view[i].id < c.id)

CountsCreate ==
    /\ Cardinality(rentals) < MaxRentals
    /\ CreateRental(setAuthCookie(UserRow(1)), NoHeader, Title, JUndef, 0)
    /\ UNCHANGED aux

CountsLike ==
    \E c \in Sessions, n \in 1..MaxRentals :
        /\ seq.likes < MaxLikeId
        /\ ToggleLike(c, NoHeader, Str(n))
        /\ UNCHANGED aux

CountsFeed == GetFeed(JUndef, JUndef) /\ UNCHANGED aux

CountsGet == \E n \in 1..MaxRentals : GetRental(Str(n)) /\ UNCHANGED aux

NextCounts == CountsCreate \/ CountsLike \/ CountsFeed \/ CountsGet

SpecCounts == Init /\ [][NextCounts]_vars

Likers(L) == {u \in Ids(users) : Liked(likes, L, u)}

\* C15: the like count of a listing in a feed entry and in the detail view is
\* the number of users whose pair with the listing is present; it is never
\* negative, and a listing just created has none.
C15_LikeCount ==
    /\ resp.route = "feed" =>
          \A k \in 1..Len(resp.body.feed) :
              /\ resp.body.feed[k].likes = Cardinality(Likers(resp.body.feed[k].id))
              /\ resp.body.feed[k].likes >= 0
    /\ (resp.route = "rental" /\ resp.status = 200) =>
          /\ resp.body.rental.likes = Cardinality(Likers(resp.body.rental.id))
          /\ resp.body.rental.likes >= 0
    /\ (resp.route = "rentals" /\ resp.status = 201) =>
          /\ Likers(resp.body.rental.id) = {}
          /\ CountLikes(likes, resp.body.rental.id) = 0

\* C15 witness: a feed read after a like was taken back, with one listing
\* liked by two users and the other by none
C15_Witness ==
    /\ resp.route = "feed"
    /\ Len(resp.body.feed) = 2
    /\ seq.likes = 3
    /\ \E k \in 1..2 : resp.body.feed[k].likes = 2
    /\ \E k \in 1..2 : resp.body.feed[k].likes = 0

(***************************************************************************)
(* Every route, called with and without a session.  A logged-in user sets  *)
(* up listings, comments, likes and todos; the same requests, well formed  *)
(* or not, also arrive with no token, with a forged or expired token and   *)
(* with a token under another Authorization scheme.                        *)
(***************************************************************************)
Session1 == setAuthCookie(UserRow(1))
NoSession == {<<NoToken, NoHeader>>, <<BadToken, NoHeader>>, <<NoToken, Bearer(BadToken)>>,
              <<NoToken, Basic(Session1)>>}
Credentials == NoSession \cup {<<Session1, NoHeader>>}

\* a request with a session is well formed; one without may be anything
Allowed(cred, wellFormed) == cred \in NoSession \/ wellFormed

AuthCreate ==
    \E cred \in Credentials, t \in {JUndef, Title}, n \in {0, 1} :
        /\ Allowed(cred, t = Title /\ n = 0)
        /\ Cardinality(rentals) < MaxAuthRows
        /\ CreateRental(cred[1], cred[2], t, JUndef, n)
        /\ UNCHANGED aux

AuthComment ==
    \E cred \in Credentials, id \in {<<"1">>, <<"x">>}, t \in {JUndef, Hello} :
        /\ Allowed(cred, id = <<"1">> /\ t = Hello)
        /\ seq.comments < MaxAuthRows
        /\ AddComment(cred[1], cred[2], id, t)
        /\ UNCHANGED aux

AuthLike ==
    \E cred \in Credentials, id \in {<<"1">>, <<"x">>} :
        /\ Allowed(cred, id = <<"1">>)
        /\ seq.likes < MaxAuthRows
        /\ ToggleLike(cred[1], cred[2], id)
        /\ UNCHANGED aux

AuthTodoCreate ==
    \E cred \in Credentials, t \in {JUndef, Title} :
        /\ Allowed(cred, t = Title)
        /\ seq.todos < MaxAuthRows
        /\ CreateTodo(cred[1], cred[2], t)
        /\ UNCHANGED aux

AuthTodoPatch ==
    \E cred \in Credentials, id \in {<<"1">>, <<"x">>}, d \in {JUndef, JStr(<<"1">>)} :
        /\ Allowed(cred, id = <<"1">> /\ d # JUndef)
        /\ PatchTodo(cred[1], cred[2], id, JUndef, d)
        /\ UNCHANGED aux

AuthTodoDelete ==
    \E cred \in Credentials, id \in {<<"1">>, <<"x">>} :
        /\ Allowed(cred, id = <<"1">>)
        /\ DeleteTodo(cred[1], cred[2], id)
        /\ UNCHANGED aux

AuthFeed == GetFeed(JUndef, JUndef) /\ UNCHANGED aux

AuthDetail == GetRental(<<"1">>) /\ UNCHANGED aux

NextAuth ==
    \/ AuthCreate \/ AuthComment \/ AuthLike
    \/ AuthTodoCreate \/ AuthTodoPatch \/ AuthTodoDelete
    \/ AuthFeed \/ AuthDetail

SpecAuth == Init /\ [][NextAuth]_vars

WriteRoutes == {"rentals", "comments", "like", "todos.create", "todos.patch", "todos.delete"}
ReadRoutes == {"feed", "rental"}
NoValidToken(req) == ~req.cookie.valid /\ ~req.header.token.valid

\* C16: a write request that carries no valid token is answered 401 and
\* changes no table and stores no file, whatever its other fields; the feed
\* and the detail view are never answered 401.
C16_WritesNeedToken ==
    /\ [][(resp'.route \in WriteRoutes /\ NoValidToken(resp'.req)) =>
            (resp'.status = 401 /\ UNCHANGED <<db, uploads>>)]_vars
    /\ [](resp.route \in ReadRoutes => resp.status \in {200, 404})

\* C16 witness: the delete of an existing todo refused for a forged token
C16_Witness ==
    /\ resp.route = "todos.delete"
    /\ resp.status = 401
    /\ resp.req.cookie = BadToken
    /\ IsIntGt0(resp.req.id)
    /\ \E t \in todos : t.id = ToNumber(resp.req.id)
    /\ rentals # {} /\ likes # {} /\ comments # {}

(***************************************************************************)
(* Requests that carry a token cookie, an Authorization header, both or    *)
(* neither.                                                                *)
(***************************************************************************)
SessionCookies == {NoToken, EmptyToken, BadToken} \cup Sessions
SessionHeaders == {NoHeader, Bearer(EmptyToken), Bearer(BadToken)}
                      \cup {Bearer(t) : t \in Sessions} \cup {Basic(t) : t \in Sessions}

SessionMe ==
    \E c \in SessionCookies, h \in SessionHeaders : Me(c, h) /\ UNCHANGED aux

SessionTodo ==
    \E c \in SessionCookies, h \in SessionHeaders :
        /\ seq.todos < MaxTodos
        /\ CreateTodo(c, h, Title)
        /\ UNCHANGED aux

NextSession == SessionMe \/ SessionTodo

SpecSession == Init /\ [][NextSession]_vars

Authenticated == resp.status \in {200, 201}
AuthenticatedAs(t) ==
    /\ Authenticated
    /\ resp.user = t.sub
    /\ resp.route = "me" => resp.body.user.id = t.sub
    /\ resp.route = "todos.create" => \E t2 \in todos : t2.id = resp.body.todo.id
                                                         /\ t2.user_id = t.sub
RejectedAsInvalid == resp.status = 401 /\ resp.body = Message("Invalid or expired token")
HasBearer(req) == req.header.present /\ req.header.scheme = "bearer"

\* C17 as stated: with a token cookie and a Bearer header, the request is
\* authenticated as the cookie's identity when the cookie's token is valid and
\* rejected as invalid or expired when it is not, whatever the header holds.
C17_Original ==
    (resp.route \in {"me", "todos.create"} /\ resp.req.cookie.present /\ HasBearer(resp.req)) =>
        IF resp.req.cookie.valid THEN AuthenticatedAs(resp.req.cookie) ELSE RejectedAsInvalid

\* C17 amended: with a non-empty token cookie and a Bearer header, the request
\* is authenticated as the cookie's identity when the cookie's token is valid
\* and rejected as invalid or expired when it is not, whatever the header
\* holds; the header's token is used only when there is no token cookie or its
\* value is empty.
C17_CookieFirst ==
    resp.route \in {"me", "todos.create"} =>
        /\ (resp.req.cookie.present /\ ~resp.req.cookie.empty /\ HasBearer(resp.req)) =>
              IF resp.req.cookie.valid THEN AuthenticatedAs(resp.req.cookie)
              ELSE RejectedAsInvalid
        /\ (Authenticated /\ ~resp.req.cookie.valid) =>
              /\ ~resp.req.cookie.present \/ resp.req.cookie.empty
              /\ HasBearer(resp.req)
              /\ AuthenticatedAs(resp.req.header.token)

\* C17 witness: a todo created under the cookie's identity while the header
\* holds another user's valid token
C17_Witness ==
    /\ resp.route = "todos.create"
    /\ resp.status = 201
    /\ resp.req.cookie.valid
    /\ HasBearer(resp.req)
    /\ resp.req.header.token.valid
    /\ resp.req.header.token.sub # resp.req.cookie.sub
    /\ resp.user = resp.req.cookie.sub

(***************************************************************************)
(* Accounts: register, login and GET /api/me, one request after the other. *)
(* log holds the responses in the order of the requests.                   *)
(***************************************************************************)
RegisterEmails == {JStr(<<"n", "@", "x", ".", "c", "o", "m">>), JStr(<<"N", "@", "X", ".", "c", "o", "m">>),
                   JStr(<<"A", "@", "x", ".", "c", "o", "m">>), JStr(<<"n", "x", ".", "c", "o", "m">>)}
RegisterPasswords == {JStr(Password), JStr(<<"s", "h", "o", "r", "t">>)}
LoginEmails == {JStr(<<"A", "@", "x", ".", "c", "o", "m">>), JStr(<<"n", "@", "x", ".", "c", "o", "m">>),
                JStr(<<"N", "@", "X", ".", "c", "o", "m">>), JStr(<<"d", "@", "x", ".", "c", "o", "m">>)}
LoginPasswords == {JStr(Password), JStr(<<"p", "a", "s", "s", "w", "0", "r", "d">>)}

AccountsRegister ==
    \E e \in RegisterEmails \cup {JUndef}, p \in RegisterPasswords :
        /\ e = JUndef => p = JStr(Password)
        /\ Len(log) < MaxAccountReq
        /\ Register(e, p)
        /\ log' = Append(log, resp')
        /\ UNCHANGED <<pending, txn, feedPage>>

AccountsLogin ==
    \E e \in LoginEmails, p \in LoginPasswords :
        /\ Len(log) < MaxAccountReq
        /\ Login(e, p)
        /\ log' = Append(log, resp')
        /\ UNCHANGED <<pending, txn, feedPage>>

AccountsMe ==
    \E c \in {NoToken} \cup {setAuthCookie(u) : u \in users} :
        /\ Len(log) < MaxAccountReq
        /\ Me(c, NoHeader)
        /\ log' = Append(log, resp')
        /\ UNCHANGED <<pending, txn, feedPage>>

NextAccounts == AccountsRegister \/ AccountsLogin \/ AccountsMe

SpecAccounts == Init /\ [][NextAccounts]_vars

Registered(r) == r.route = "register" /\ r.status = 201
LoggedIn(r) == r.route = "login" /\ r.status = 200

\* C18: a login that follows a successful register with the same email and
\* password succeeds with a token of the registered user, and GET /api/me with
\* that token then answers that user's id and email.
C18_RegisterThenLogin ==
    \A i \in 1..Len(log) :
        /\ (i + 1 <= Len(log) /\ Registered(log[i]) /\ log[i + 1].route = "login"
              /\ log[i + 1].req = log[i].req) =>
              /\ LoggedIn(log[i + 1])
              /\ log[i + 1].body.token.valid
              /\ log[i + 1].body.token.sub = log[i].body.user.id
              /\ log[i + 1].body.cookie = log[i + 1].body.token
        /\ (i + 2 <= Len(log) /\ Registered(log[i]) /\ LoggedIn(log[i + 1])
              /\ log[i + 1].req = log[i].req /\ log[i + 2].route = "me"
              /\ log[i + 2].req.cookie = log[i + 1].body.token) =>
              /\ log[i + 2].status = 200
              /\ log[i + 2].body.user = log[i].body.user
              /\ log[i + 2].body.user.email = toLowerCase(log[i].req.email.s)

\* C18 witness: register with an address in upper case, login, GET /api/me
C18_Witness ==
    /\ Len(log) = 3
    /\ Registered(log[1]) /\ log[1].req.email.s # toLowerCase(log[1].req.email.s)
    /\ LoggedIn(log[2]) /\ log[2].req = log[1].req
    /\ log[3].route = "me" /\ log[3].status = 200
    /\ log[3].req.cookie = log[2].body.token

SameIgnoringCase(a, b) == toLowerCase(a) = toLowerCase(b)
DuplicateEmail(req) ==
    /\ req.email.type = "string"
    /\ \E u \in users : SameIgnoringCase(req.email.s, u.email)
NoTwins == \A u, v \in users : SameIgnoringCase(u.email, v.email) => u = v

\* C19 as stated: a register whose email equals an existing user's email
\* ignoring case is answered 409 whatever the password, and adds no user; no
\* two users have emails equal ignoring case.
C19_Original ==
    /\ [][(resp'.route = "register" /\ DuplicateEmail(resp'.req)) =>
            (resp'.status = 409 /\ users' = users)]_vars
    /\ []NoTwins

\* C19 amended: a register whose email equals an existing user's email
\* ignoring case adds no user, and is answered 409 whenever its password has
\* at least 8 characters (400 when the password is missing or shorter); no two
\* users have emails equal ignoring case.
C19_Duplicate ==
    /\ [][(resp'.route = "register" /\ DuplicateEmail(resp'.req)) =>
            /\ users' = users
            /\ resp'.status = IF resp'.req.password.type = "string"
                                   /\ Len(resp'.req.password.s) >= 8
                               THEN 409 ELSE 400]_vars
    /\ []NoTwins

\* C19 witness: 409 for an address that differs from the stored one in case
C19_Witness ==
    /\ resp.route = "register"
    /\ resp.status = 409
    /\ \E u \in users : SameIgnoringCase(resp.req.email.s, u.email) /\ resp.req.email.s # u.email
    /\ Cardinality(users) > NumUsers

Validated(req) == IsEmail(req.email.s) /\ req.password.type = "string"
UnknownEmail(req) == ~\E u \in users : u.email = toLowerCase(req.email.s)
WrongPassword(req) ==
    \E u \in users : u.email = toLowerCase(req.email.s)
                       /\ u.password_hash # hashSync(req.password.s)
LoginFailed(r) == r.route = "login" /\ r.status = 401

\* C20: a login with an unknown email and a login with a known email and a
\* wrong password are answered alike: 401, the same generic message, no
\* cookie and no token.
C20_SameFailure ==
    /\ (resp.route = "login" /\ Validated(resp.req)
          /\ (UnknownEmail(resp.req) \/ WrongPassword(resp.req))) =>
            (resp.status = 401 /\ resp.body = Message("Invalid credentials"))
    /\ \A i, j \in 1..Len(log) :
          (LoginFailed(log[i]) /\ LoginFailed(log[j])) =>
              (log[i].status = log[j].status /\ log[i].body = log[j].body)

\* C20 witness: a failed login for an unknown email, then one for a known
\* email with a wrong password
C20_Witness ==
    /\ Len(log) >= 2
    /\ LoginFailed(log[1]) /\ UnknownEmail(log[1].req)
    /\ LoginFailed(log[2]) /\ WrongPassword(log[2].req)

(***************************************************************************)
(* Every validating route, with well-formed and with malformed fields,     *)
(* with and without a session.  The store is filled table after table:     *)
(* listings, comments, likes, todos.                                       *)
(***************************************************************************)
Empty == JStr(<<>>)
ValidateCreds == {<<Session1, NoHeader>>, <<NoToken, NoHeader>>}

\* a request that will write is let in only while its table has room and the
\* tables before it are full
Room(table, before) ==
    /\ seq[table] < MaxAuthRows
    /\ \A t \in before : seq[t] = MaxAuthRows
    /\ \A t \in {"rentals", "comments", "likes", "todos"} \ (before \cup {table}) : seq[t] = 0

ValidateRegister ==
    \E e \in {JStr(<<"n", "@", "x", ".", "c", "o", "m">>), JStr(<<"n", "x", ".", "c", "o", "m">>), JUndef},
       p \in {JStr(Password), JStr(<<"s", "h", "o", "r", "t">>), JUndef} :
        /\ Register(e, p)
        /\ UNCHANGED aux

ValidateLogin ==
    \E e \in {JStr(Emails[1]), JStr(<<"a", "x", ".", "c", "o", "m">>)}, p \in {JStr(Password), JUndef} :
        Login(e, p) /\ UNCHANGED aux

ValidateCreate ==
    \E cred \in ValidateCreds, t \in {JUndef, Empty, Title},
       p \in {JUndef, JStr(<<"x">>), JStr(<<"5">>)}, n \in {0, MaxFiles + 1} :
        /\ (cred[1].valid /\ n = 0 /\ t = Title /\ p # JStr(<<"x">>)) =>
              Room("rentals", {})
        /\ CreateRental(cred[1], cred[2], t, p, n)
        /\ UNCHANGED aux

ValidateComment ==
    \E cred \in ValidateCreds, id \in {<<"1">>, <<"0">>, <<"x">>}, t \in {JUndef, Empty, Hello} :
        /\ (cred[1].valid /\ id = <<"1">> /\ t = Hello) =>
              Room("comments", {"rentals"})
        /\ AddComment(cred[1], cred[2], id, t)
        /\ UNCHANGED aux

ValidateLike ==
    \E cred \in ValidateCreds, id \in {<<"1">>, <<"-", "1">>} :
        /\ (cred[1].valid /\ id = <<"1">>) => Room("likes", {"rentals", "comments"})
        /\ ToggleLike(cred[1], cred[2], id)
        /\ UNCHANGED aux

ValidateDetail == \E id \in {<<"1">>, <<"x">>} : GetRental(id) /\ UNCHANGED aux

ValidateTodoCreate ==
    \E cred \in ValidateCreds, t \in {JUndef, Empty, Title} :
        /\ (cred[1].valid /\ t = Title) =>
              Room("todos", {"rentals", "comments", "likes"})
        /\ CreateTodo(cred[1], cred[2], t)
        /\ UNCHANGED aux

ValidateTodoPatch ==
    \E cred \in ValidateCreds, id \in {<<"1">>, <<"x">>}, t \in {JUndef, Empty},
       d \in {JUndef, JStr(<<"1">>), JStr(<<"y">>)} :
        /\ PatchTodo(cred[1], cred[2], id, t, d)
        /\ UNCHANGED aux

ValidateTodoDelete ==
    \E cred \in ValidateCreds, id \in {<<"1">>, <<"0">>} :
        /\ DeleteTodo(cred[1], cred[2], id)
        /\ UNCHANGED aux

NextValidate ==
    \/ ValidateRegister \/ ValidateLogin \/ ValidateCreate \/ ValidateComment
    \/ ValidateLike \/ ValidateDetail
    \/ ValidateTodoCreate \/ ValidateTodoPatch \/ ValidateTodoDelete

SpecValidate == Init /\ [][NextValidate]_vars

Missing(v) == v.type = "undefined"
Blank(v) == v.type = "undefined" \/ (v.type = "string" /\ v.s = <<>>)
BadId(id) == ~IsIntGt0(id)

\* the response r belongs to a request with a field that fails its validator
FailsValidation(r) ==
    CASE r.route = "register" ->
             \/ Missing(r.req.email) \/ ~IsEmail(r.req.email.s)
             \/ Missing(r.req.password) \/ Len(r.req.password.s) < 8
      [] r.route = "login" ->
             Missing(r.req.email) \/ ~IsEmail(r.req.email.s) \/ Missing(r.req.password)
      [] r.route = "rentals" ->
             Blank(r.req.title) \/ (~Missing(r.req.price) /\ ~IsNumeric(r.req.price.s))
      [] r.route = "comments" -> BadId(r.req.id) \/ Blank(r.req.text)
      [] r.route \in {"like", "rental", "todos.delete"} -> BadId(r.req.id)
      [] r.route = "todos.create" -> Blank(r.req.text)
      [] r.route = "todos.patch" ->
             \/ BadId(r.req.id)
             \/ (~Missing(r.req.text) /\ r.req.text.s = <<>>)
             \/ (~Missing(r.req.done) /\ ~IsBoolean(r.req.done.s))
      [] OTHER -> FALSE

\* the request of r gets past authenticateJWT and multer, where its route has them
ReachesValidators(r) ==
    /\ r.route \notin {"register", "login", "rental"} => r.req.cookie.valid
    /\ r.route = "rentals" => r.req.nfiles <= 6

IsErrorList(body) ==
    /\ DOMAIN body = {"message", "errors"}
    /\ body.message = "Validation failed"
    /\ Len(body.errors) >= 1
    /\ \A i \in 1..Len(body.errors) : DOMAIN body.errors[i] = {"field", "message"}

MaxImageReq == 3
MaxUploads == 12

ImagesCreate ==
    /\ seq.rentals < MaxImageReq
    /\ uploads < MaxUploads
    /\ \E cookie \in {Session1, NoToken}, t \in {Title, Empty},
          n \in {0, 1, MaxFiles, MaxFiles + 1} :
            CreateRental(cookie, NoHeader, t, JUndef, n)
    /\ UNCHANGED aux

ImagesDetail ==
    /\ \E id \in {Str(1)} : GetRental(id)
    /\ UNCHANGED aux

NextImages == ImagesCreate \/ ImagesDetail

SpecImages == Init /\ [][NextImages]_vars

ImageCount(r) == Cardinality(DOMAIN r.images)

\* C22: every stored listing has at most 6 image references, and a
\* create-listing request carrying more than 6 images is rejected and stores
\* no listing.
C22_ImageCap ==
    [][/\ \A r \in rentals' : ImageCount(r) <= MaxFiles
       /\ (resp'.route = "rentals" /\ resp'.req.nfiles > MaxFiles) =>
            (resp'.status >= 400 /\ rentals' = rentals /\ seq' = seq)]_vars

C22_Witness ==
    /\ resp.route = "rentals"
    /\ resp.user = 1
    /\ resp.req.nfiles = MaxFiles + 1
    /\ resp.status = 500
    /\ \E r \in rentals : ImageCount(r) = MaxFiles

\* C25: a create-listing request that fails validation after its images were
\* received leaves neither a listing row nor an uploaded image file behind.
C25_NoPartialState ==
    [][(/\ resp'.route = "rentals"
        /\ resp'.status = 400
        /\ resp'.req.nfiles > 0) =>
            (rentals' = rentals /\ uploads' = uploads)]_vars

(***************************************************************************)
(* PATCH /api/todos/:id by owners and strangers, with every spelling of a  *)
(* boolean that isBoolean accepts.                                         *)
(***************************************************************************)
MaxPatchTodos == 2

True == <<"t", "r", "u", "e">>
False == <<"f", "a", "l", "s", "e">>
PatchDones == {JUndef, JBool(TRUE), JBool(FALSE), JStr(True), JStr(False),
               JStr(<<"1">>), JStr(<<"0">>)}
PatchIds == {Str(n) : n \in 1..MaxPatchTodos}

PatchCreate ==
    \E c \in Sessions :
        /\ seq.todos < MaxPatchTodos
        /\ CreateTodo(c, NoHeader, Title)
        /\ UNCHANGED aux

PatchPatch ==
    \E c \in Sessions, id \in PatchIds, t \in {JUndef, JStr(<<"b">>)}, d \in PatchDones :
        PatchTodo(c, NoHeader, id, t, d) /\ UNCHANGED aux

NextPatch == PatchCreate \/ PatchPatch

SpecPatch == Init /\ [][NextPatch]_vars

\* the truth value a body value accepted by isBoolean denotes
Denoted(v) == IF toString(v) \in {True, <<"1">>} THEN 1 ELSE 0

\* the todo that a PATCH of its owner, answered by the handler, was addressed to
Addressed(r) ==
    {t \in todos : /\ r.route = "todos.patch"
                   /\ PatchErrors(r.req.id, r.req.text, r.req.done) = <<>>
                   /\ t.id = ToNumber(r.req.id)
                   /\ t.user_id = r.user}

\* C23: a PATCH by the owner changes only the supplied fields of only the
\* addressed todo: a supplied done is stored as the truth value it denotes,
\* whatever accepted spelling it has, a field that is not supplied keeps its
\* value, a PATCH supplying neither is rejected, and no other todo changes.
C23_SuppliedFieldsOnly ==
    [][\A t \in Addressed(resp') :
        LET text == resp'.req.text
            done == resp'.req.done
            after == [t EXCEPT
                        !.text = IF text.type # "undefined" THEN toString(Sanitize(text)) ELSE @,
                        !.done = IF done.type # "undefined" THEN Denoted(done) ELSE @]
        IN
        IF text.type = "undefined" /\ done.type = "undefined"
        THEN resp'.status = 400 /\ todos' = todos
        ELSE resp'.status = 200 /\ todos' = (todos \ {t}) \cup {after}]_vars

(***************************************************************************)
(* Comments written on several listings, between other writes and          *)
(* rejected comments, and read through the detail view.                    *)
(***************************************************************************)
MaxAppendComments == 3

AppendCreate ==
    /\ seq.rentals < MaxRentals
    /\ CreateRental(Session1, NoHeader, Title, JUndef, 0)
    /\ UNCHANGED aux

AppendComment ==
    \E c \in {setAuthCookie(UserRow(2))}, n \in 1..MaxRentals, t \in {Hello, Empty} :
        /\ seq.comments < MaxAppendComments
        /\ AddComment(c, NoHeader, Str(n), t)
        /\ UNCHANGED aux

AppendLike ==
    /\ seq.likes < MaxLikeId
    /\ ToggleLike(Session1, NoHeader, Str(1))
    /\ UNCHANGED aux

AppendGet == \E n \in 1..MaxRentals : GetRental(Str(n)) /\ UNCHANGED aux

NextAppend == AppendCreate \/ AppendComment \/ AppendLike \/ AppendGet

SpecAppend == Init /\ [][NextAppend]_vars

IsPrefix(s, t) == Len(s) <= Len(t) /\ s = SubSeq(t, 1, Len(s))

\* C24: comments are append-only: with every step, the comment sequence the
\* detail view serves for a listing before the step is a prefix of the one it
\* serves after it, a detail response carries that sequence, and an addComment
\* answered 201 appends exactly its one comment at the end of its listing's
\* sequence and changes no other listing's.
C24_AppendOnly ==
    [][/\ \A L \in 1..MaxRentals : IsPrefix(DetailCommentsOf(L), DetailCommentsOf(L)')
       /\ (resp'.route = "rental" /\ resp'.status = 200) =>
            \A L \in 1..MaxRentals :
                resp'.body.rental.id = L => resp'.body.rental.comments = DetailCommentsOf(L)'
       /\ (resp'.route = "comments" /\ resp'.status = 201) =>
            \A L \in 1..MaxRentals :
                DetailCommentsOf(L)' =
                    IF L = ToNumber(resp'.req.id)
                    THEN Append(DetailCommentsOf(L), resp'.body.comment)
                    ELSE DetailCommentsOf(L)
       /\ (resp'.route = "comments" /\ resp'.status # 201) => comments' = comments]_vars

\* C24 witness: a third comment was just appended to listing 1, whose first
\* two comments were written around a comment on listing 2
C24_Witness ==
    /\ resp.route = "comments"
    /\ resp.status = 201
    /\ resp.req.id = Str(1)
    /\ Len(DetailCommentsOf(1)) = 2
    /\ DetailCommentsOf(1)[2] = resp.body.comment
    /\ Len(DetailCommentsOf(2)) = 1
    /\ DetailCommentsOf(1)[1].id < DetailCommentsOf(2)[1].id
    /\ likes # {}

(***************************************************************************)
(* public/feed.js: the feed page.  loadFeed runs once, on the window's     *)
(* load event, and awaits the first loadMore before it sets up the         *)
(* IntersectionObserver; every later loadMore is called by the observer.   *)
(* A call of loadMore runs to its first await in one step; calls holds the *)
(* calls suspended at an await, issued the offsets of the /api/feed        *)
(* requests sent so far.  What a fetch answers is the environment's        *)
(* choice: a page of 0..FEED_LIMIT entries, a sample file of some length,  *)
(* or a failure.                                                           *)
(***************************************************************************)
FEED_LIMIT == 6
MaxFetches == 4
MaxSample == 8

server == <<db, uploads, resp, log, pending, txn>>

\* line 128: if (loading || !hasMore) return;
GuardNever == FALSE
Guard == loading \/ ~hasMore

\* lines 127-131: up to the await of the /api/feed request
loadMore ==
    IF Guard
    THEN UNCHANGED <<loading, calls, issued>>
    ELSE /\ loading' = TRUE
         /\ calls' = calls \cup {[id |-> Len(issued) + 1, pc |-> "api"]}
         /\ issued' = Append(issued, feedOffset)

\* lines 178-187
loadFeed ==
    /\ phase = "init"
    /\ feedOffset' = 0
    /\ hasMore' = TRUE
    /\ IF loading
       THEN phase' = "scroll" /\ UNCHANGED <<loading, calls, issued>>
       ELSE /\ loading' = TRUE
            /\ calls' = calls \cup {[id |-> Len(issued) + 1, pc |-> "api"]}
            /\ issued' = Append(issued, 0)
            /\ phase' = "first"
    /\ UNCHANGED server

\* lines 169-171: the observer's callback
Scroll ==
    /\ phase = "scroll"
    /\ Len(issued) < MaxFetches
    /\ loadMore
    /\ UNCHANGED <<feedOffset, hasMore, phase, server>>

\* lines 163-165, and line 184 when the call loadFeed awaits returns
Finally(f) ==
    /\ loading' = FALSE
    /\ calls' = calls \ {f}
    /\ phase' = IF phase = "first" /\ f.id = 1 THEN "scroll" ELSE phase

Await(f, pc) ==
    /\ calls' = (calls \ {f}) \cup {[f EXCEPT !.pc = pc]}
    /\ UNCHANGED <<feedOffset, loading, hasMore, phase>>

\* sample.slice(feedOffset, feedOffset + FEED_LIMIT).length
SliceLength(len) ==
    IF len <= feedOffset THEN 0
    ELSE IF len - feedOffset < FEED_LIMIT THEN len - feedOffset ELSE FEED_LIMIT

\* lines 131-147, the request answered with n entries
ApiOk(f) ==
    \E n \in 0..FEED_LIMIT, more \in BOOLEAN :
        /\ f.pc = "api"
        /\ IF n > 0
           THEN /\ feedOffset' = feedOffset + n
                /\ hasMore' = more
                /\ Finally(f)
           ELSE IF feedOffset = 0
           THEN Await(f, "sample")
           ELSE /\ hasMore' = FALSE
                /\ UNCHANGED feedOffset
                /\ Finally(f)
        /\ UNCHANGED <<issued, server>>

\* lines 148-151: getJSON throws inside the try block
Catch(f) ==
    /\ f.pc \in {"api", "sample"}
    /\ Await(f, "fallback")
    /\ UNCHANGED <<issued, server>>

\* lines 139-143 and 151-155: /sample-feed.json answered with len entries
SampleOk(f) ==
    \E len \in {0, MaxSample} :
        /\ f.pc \in {"sample", "fallback"}
        /\ feedOffset' = feedOffset + SliceLength(len)
        /\ hasMore' = (feedOffset' < len)
        /\ Finally(f)
        /\ UNCHANGED <<issued, server>>

\* lines 156-162
SampleFails(f) ==
    /\ f.pc = "fallback"
    /\ hasMore' = FALSE
    /\ UNCHANGED feedOffset
    /\ Finally(f)
    /\ UNCHANGED <<issued, server>>

Settle == \E f \in calls : ApiOk(f) \/ Catch(f) \/ SampleOk(f) \/ SampleFails(f)

NextClient == loadFeed \/ Scroll \/ Settle

\* every fetch the page starts is answered or fails
SpecClient == Init /\ [][NextClient]_vars /\ WF_vars(Settle)

\* C26: whatever the order of the observer's callbacks and of the fetches'
\* completions, at most one loadMore is suspended at a fetch, no two /api/feed
\* requests are sent with the same offset, and loading, once set, is reset to
\* false.
C26_OneFetchAtATime ==
    /\ [](Cardinality(calls) <= 1)
    /\ [](\A i, j \in 1..Len(issued) : i < j => issued[i] # issued[j])
    /\ (loading ~> ~loading)

\* C26 witness: the observer's second loadMore, sent with the offset the first
\* two pages left, failed and awaits the sample file
C26_Witness ==
    /\ phase = "scroll"
    /\ Len(issued) = 3
    /\ issued[3] = feedOffset
    /\ feedOffset = 2 * FEED_LIMIT
    /\ loading
    /\ \E f \in calls : f.pc = "fallback"

====
